---- MODULE Spec2Model ----
(***************************************************************************)
(* External-memory sparse page source (src/data/sparse_page_source.cc).    *)
(*                                                                         *)
(* The specifications share one state:                                     *)
(*   Spec      - SparsePageSource reading k shard files of arbitrary       *)
(*               length: the cursor (Next, BeforeFirst) on the caller's    *)
(*               thread and one prefetch producer thread per shard.        *)
(*   SpecRT    - pages handed to the page writer, then read back by the    *)
(*               same cursor.                                              *)
(*   SpecBuild - CreateRowPage consuming the row blocks of a parser.       *)
(*   SpecDM    - CreatePageFromDMatrix consuming the row batches of a      *)
(*               matrix.                                                   *)
(*   SpecPath  - GetCacheShards and CacheExist on cache specification      *)
(*               strings, which are sequences of characters.               *)
(*   SpecLong  - the reader under fair scheduling, on a cache one shard of *)
(*               which is longer than the prefetch queue.                  *)
(*                                                                         *)
(* Shards are numbered from 0 as in the code; sequences are 1-based, so    *)
(* the i-th page (from 0) of shard s is files[s][i + 1].                   *)
(***************************************************************************)
EXTENDS Integers, Sequences, FiniteSets, TLC

\* ---------------------------------------------------------------- bounds
MaxPages == 3       \* pages in a cache, all shards together (Spec)
MaxRewinds == 2     \* BeforeFirst() calls in one behaviour
MaxPush == 6        \* pages handed to the writer (SpecRT)

MaxBlocks == 2      \* row blocks the parser yields (SpecBuild)
QidBits == 2        \* width of a query id in the model (uint64_t in the code)
IndexBits == 2      \* width of a feature index in the model (uint32_t)
MaxSpecLen == 3     \* characters of a cache specification (SpecPath)

\* shard counts k of the caches read and written
ShardCounts == {1, 2, 3}
\* row counts of the pages handed to the writer
PageSizes == {1, 2}

\* capacity handed to dmlc::ThreadedIter<SparsePage>
kCapacity == 4

\* page size target of the builders, in units of one offset or one entry
\* (8 bytes each)
kPageSize == 3

\* std::numeric_limits<uint64_t>::max(), at the model's width
default_max == 2^QidBits - 1
\* the largest feature index, at the model's width
IndexMax == 2^IndexBits - 1

\* what the parser may yield: rows of a block, its query ids (two ordinary
\* ids and the largest one), the feature indices of its nonzeros
BlockRows == {1, 2}
QidChoices == {0, 1, default_max}
IndexChoices == {0, 1, IndexMax}
NnzCounts == {0, 1, 2}

VARIABLES
  phase,        \* "write": the writer is open; "read": the source is open;
                \* "build": CreateRowPage is running; "dmatrix":
                \* CreatePageFromDMatrix is running
  files,        \* files[s]: the pages stored in shard s after the format tag
  \* ---- per-shard prefetch pipeline (prefetchers_[s], files_[s])
  pos,          \* pos[s]: pages read from files_[s] since fbegin
  queue,        \* queue[s]: pages decoded and ready, oldest first
  freeCells,    \* freeCells[s]: recycled pages waiting for reuse
  allocated,    \* allocated[s]: pages created by the producer of shard s
  produceEnd,   \* produceEnd[s]: the producer signalled end-of-stream
  sig,          \* sig[s]: "produce" | "beforefirst" (rewind requested)
  processed,    \* processed[s]: the producer has served the rewind request
  \* ---- cursor (SparsePageSource members)
  base_rowid_,
  clock_ptr_,
  page_,        \* the held page, NoPage for nullptr
  pc,           \* "idle" | "next" (inside Next) | "bf" (inside BeforeFirst)
  bfIdx,        \* shard whose BeforeFirst() the cursor is waiting for
  \* ---- observations of the caller (history)
  yields,       \* pages returned by the successful Next() calls of this pass
  nFalse,       \* Next() calls of this pass that returned false (capped at 2)
  prevYields,   \* yields of the pass before the last BeforeFirst()
  prevDrained,  \* that pass had ended with Next() returning false
  rewinds,      \* BeforeFirst() calls so far
  \* ---- page writer
  pushed,       \* pages handed to PushWrite, in order
  wclock,       \* the writer's clock: shard of the next page
  \* ---- CreateRowPage(parser)
  bpc,          \* "loop" | "done" | "fatal" (the CHECK on qids failed)
  info,         \* MetaInfo: qids, group_ptr, num_row, num_col, num_nonzero
  last_group_id,
  group_size,
  bpage,        \* the page being filled: its rows and entries
  saved,        \* info.SaveBinary(fo) has run
  \* ---- what the parser has yielded (history)
  nblocks,      \* row blocks consumed
  rowsIn,       \* rows of all blocks
  qidRows,      \* rows of the blocks that carried qids
  maxIndex,     \* largest feature index of all nonzeros, -1 when none
  costIn,       \* memory cost of all blocks
  \* ---- metadata file and CreatePageFromDMatrix
  metaFile,     \* what was written to the metadata file, in order
  page_type,    \* the page type handed to CreatePageFromDMatrix
  src,          \* the source matrix: its row batches and its MetaInfo
  \* ---- cache specification strings
  cache_info,   \* the cache specification, a sequence of characters
  drive_letters,\* TRUE when built with _WIN32 or __CYGWIN__ defined
  cache_shards, \* the prefixes GetCacheShards returned
  fsys,         \* the paths that can be opened for reading
  outcome       \* how the call ended, "none" before it

readerVars == <<pos, queue, freeCells, allocated, produceEnd, sig,
                processed, base_rowid_, clock_ptr_, page_, pc, bfIdx>>
histVars == <<yields, nFalse, prevYields, prevDrained, rewinds>>
writerVars == <<pushed, wclock>>
buildVars == <<bpc, info, last_group_id, group_size, bpage, saved,
               nblocks, rowsIn, qidRows, maxIndex, costIn>>
dmVars == <<page_type, src>>
pathVars == <<cache_info, drive_letters, cache_shards, fsys, outcome>>
vars == <<phase, files, readerVars, histVars, writerVars, buildVars,
          metaFile, dmVars, pathVars>>

Shards == DOMAIN files
NumShards == Cardinality(Shards)

NoPage == [tag |-> -1, size |-> 0, base_rowid |-> 0, owner |-> -1]

\* Page i (from 0) of shard s as the reader Spec seeds it: a tag unique in
\* the cache and a row count that varies with the position.
SeedPage(s, i) == [tag |-> 10 * s + i, size |-> 1 + ((s + i) % 2)]

RECURSIVE SumLens(_, _)
SumLens(f, S) ==
  IF S = {} THEN 0
  ELSE LET s == CHOOSE x \in S : TRUE IN f[s] + SumLens(f, S \ {s})

\* ------------------------------------------------------------ constructor
\* SparsePageSource::SparsePageSource: cursor at 0, no page held, one
\* prefetcher per shard positioned at fbegin and started.
OpenState(k) ==
  /\ pos = [s \in 0..(k - 1) |-> 0]
  /\ queue = [s \in 0..(k - 1) |-> <<>>]
  /\ freeCells = [s \in 0..(k - 1) |-> 0]
  /\ allocated = [s \in 0..(k - 1) |-> 0]
  /\ produceEnd = [s \in 0..(k - 1) |-> FALSE]
  /\ sig = [s \in 0..(k - 1) |-> "produce"]
  /\ processed = [s \in 0..(k - 1) |-> FALSE]
  /\ base_rowid_ = 0
  /\ clock_ptr_ = 0
  /\ page_ = NoPage
  /\ pc = "idle"
  /\ bfIdx = 0

HistInit ==
  /\ yields = <<>>
  /\ nFalse = 0
  /\ prevYields = <<>>
  /\ prevDrained = FALSE
  /\ rewinds = 0

\* MetaInfo info; as constructed
EmptyInfo == [qids |-> <<>>, group_ptr |-> <<>>, num_row |-> 0, num_col |-> 0,
              num_nonzero |-> 0]

NoMatrix == [batches |-> <<>>, info |-> EmptyInfo]

\* no CreatePageFromDMatrix call is in progress
NoDM ==
  /\ page_type = ""
  /\ src = NoMatrix

\* the cache specification is resolved already
NoPath ==
  /\ cache_info = <<>>
  /\ drive_letters = FALSE
  /\ cache_shards = <<>>
  /\ fsys = {}
  /\ outcome = "none"

\* CreateRowPage before its loop: an empty MetaInfo, a cleared page.
BuildInit ==
  /\ bpc = "loop"
  /\ info = EmptyInfo
  /\ metaFile = <<>>
  /\ last_group_id = default_max
  /\ group_size = 0
  /\ bpage = [rows |-> 0, nnz |-> 0]
  /\ saved = FALSE
  /\ nblocks = 0
  /\ rowsIn = 0
  /\ qidRows = 0
  /\ maxIndex = -1
  /\ costIn = 0

Init ==
  /\ phase = "read"
  /\ \E k \in ShardCounts :
       /\ \E lens \in [0..(k - 1) -> 0..MaxPages] :
            /\ SumLens(lens, 0..(k - 1)) <= MaxPages
            /\ files = [s \in 0..(k - 1) |->
                          [i \in 1..lens[s] |-> SeedPage(s, i - 1)]]
       /\ OpenState(k)
  /\ HistInit
  /\ pushed = <<>>
  /\ wclock = 0
  /\ BuildInit
  /\ NoDM
  /\ NoPath

\* ------------------------------------------------- prefetch pipeline
\* One round of the producer thread of shard s: it takes a page slot (a
\* recycled one, or none, in which case the produce callback creates the
\* page) and calls fmt->Read(*dptr, fi), which yields the next page of the
\* file or false at its end.  The pipeline creates at most kCapacity pages.
Produce(s) ==
  /\ phase = "read"
  /\ sig[s] = "produce"
  /\ ~produceEnd[s]
  /\ Len(queue[s]) < kCapacity
  /\ freeCells[s] > 0 \/ allocated[s] < kCapacity
  /\ allocated' = [allocated EXCEPT ![s] = IF freeCells[s] > 0 THEN @ ELSE @ + 1]
  /\ IF pos[s] < Len(files[s])
       THEN /\ queue' = [queue EXCEPT ![s] =
                           Append(@, [tag |-> files[s][pos[s] + 1].tag,
                                      size |-> files[s][pos[s] + 1].size,
                                      base_rowid |-> 0,
                                      owner |-> s])]
            /\ pos' = [pos EXCEPT ![s] = @ + 1]
            /\ freeCells' = [freeCells EXCEPT ![s] = IF @ > 0 THEN @ - 1 ELSE @]
            /\ UNCHANGED produceEnd
       ELSE /\ produceEnd' = [produceEnd EXCEPT ![s] = TRUE]
            /\ freeCells' = [freeCells EXCEPT ![s] = IF @ > 0 THEN @ ELSE @ + 1]
            /\ UNCHANGED <<queue, pos>>
  /\ UNCHANGED <<phase, files, sig, processed,
                 base_rowid_, clock_ptr_, page_, pc, bfIdx, histVars, writerVars, buildVars, metaFile, dmVars, pathVars>>

SeekNowhere(p) == p

\* the rewind callback, fi->Seek(fbegin): the stream is back at the offset
\* of its first page, which is position 0 of the page sequence
SeekBegin(p) == 0

\* The producer serves a rewind request: fi->Seek(fbegin), the ready pages
\* go back to the free list, end-of-stream is reset, production restarts.
ProducerRewind(s) ==
  /\ phase = "read"
  /\ sig[s] = "beforefirst"
  /\ pos' = [pos EXCEPT ![s] = SeekBegin(@)]
  /\ freeCells' = [freeCells EXCEPT ![s] = @ + Len(queue[s])]
  /\ queue' = [queue EXCEPT ![s] = <<>>]
  /\ produceEnd' = [produceEnd EXCEPT ![s] = FALSE]
  /\ sig' = [sig EXCEPT ![s] = "produce"]
  /\ processed' = [processed EXCEPT ![s] = TRUE]
  /\ UNCHANGED <<phase, files, allocated,
                 base_rowid_, clock_ptr_, page_, pc, bfIdx, histVars, writerVars, buildVars, metaFile, dmVars, pathVars>>

\* ------------------------------------------------------------- cursor
\* prefetchers_[(clock_ptr_ + n - 1) % n]
RecycleTarget(c, n) == (c + n - 1) % n

AdvanceClockStuck(c, n) == c

\* clock_ptr_ = (clock_ptr_ + 1) % prefetchers_.size()
AdvanceClock(c, n) == (c + 1) % n

AdvanceRowidByOne(b, p) == b + 1

\* base_rowid_ += page_->Size()
AdvanceRowid(b, p) == b + p.size

StampPageAfterAdvance(p, b) == [p EXCEPT !.base_rowid = b + p.size]

\* page_->base_rowid = base_rowid_
StampPage(p, b) == [p EXCEPT !.base_rowid = b]

\* Next(), first half: the held page is recycled, then the cursor asks
\* shard clock_ptr_ and may block there.
SourceNextCall ==
  /\ phase = "read"
  /\ pc = "idle"
  /\ IF page_ # NoPage
       THEN /\ freeCells' = [freeCells EXCEPT
                               ![RecycleTarget(clock_ptr_, NumShards)] = @ + 1]
            /\ page_' = NoPage
       ELSE UNCHANGED <<freeCells, page_>>
  /\ pc' = "next"
  /\ UNCHANGED <<phase, files, pos, queue, allocated, produceEnd, sig,
                 processed, base_rowid_, clock_ptr_, bfIdx, histVars, writerVars, buildVars, metaFile, dmVars, pathVars>>

\* Next() that moves on to the following shard when one is exhausted.
SourceNextReturnSkipShard ==
  /\ phase = "read"
  /\ pc = "next"
  /\ queue[clock_ptr_] # <<>> \/ produceEnd[clock_ptr_]
  /\ IF queue[clock_ptr_] # <<>>
       THEN /\ page_' = StampPage(Head(queue[clock_ptr_]), base_rowid_)
            /\ queue' = [queue EXCEPT ![clock_ptr_] = Tail(@)]
            /\ base_rowid_' = AdvanceRowid(base_rowid_, Head(queue[clock_ptr_]))
            /\ clock_ptr_' = AdvanceClock(clock_ptr_, NumShards)
            /\ yields' = Append(yields, [tag |-> page_'.tag,
                                         size |-> page_'.size,
                                         base_rowid |-> page_'.base_rowid])
            /\ UNCHANGED nFalse
       ELSE /\ nFalse' = IF nFalse < 2 THEN nFalse + 1 ELSE nFalse
            /\ clock_ptr_' = AdvanceClock(clock_ptr_, NumShards)
            /\ UNCHANGED <<page_, queue, base_rowid_, yields>>
  /\ pc' = "idle"
  /\ UNCHANGED <<phase, files, pos, freeCells, allocated, produceEnd,
                 sig, processed, bfIdx, prevYields, prevDrained, rewinds,
                 writerVars, buildVars, metaFile, dmVars, pathVars>>

\* Next() that does not wait for the producer of shard clock_ptr_.
SourceNextReturnNoWait ==
  /\ phase = "read"
  /\ pc = "next"
  /\ IF queue[clock_ptr_] # <<>>
       THEN /\ page_' = StampPage(Head(queue[clock_ptr_]), base_rowid_)
            /\ queue' = [queue EXCEPT ![clock_ptr_] = Tail(@)]
            /\ base_rowid_' = AdvanceRowid(base_rowid_, Head(queue[clock_ptr_]))
            /\ clock_ptr_' = AdvanceClock(clock_ptr_, NumShards)
            /\ yields' = Append(yields, [tag |-> page_'.tag,
                                         size |-> page_'.size,
                                         base_rowid |-> page_'.base_rowid])
            /\ UNCHANGED nFalse
       ELSE /\ nFalse' = IF nFalse < 2 THEN nFalse + 1 ELSE nFalse
            /\ UNCHANGED <<page_, queue, base_rowid_, clock_ptr_, yields>>
  /\ pc' = "idle"
  /\ UNCHANGED <<phase, files, pos, freeCells, allocated, produceEnd,
                 sig, processed, bfIdx, prevYields, prevDrained, rewinds,
                 writerVars, buildVars, metaFile, dmVars, pathVars>>

\* Next(), second half: prefetchers_[clock_ptr_]->Next(&page_) returns.
SourceNextReturn ==
  /\ phase = "read"
  /\ pc = "next"
  /\ queue[clock_ptr_] # <<>> \/ produceEnd[clock_ptr_]
  /\ IF queue[clock_ptr_] # <<>>
       THEN /\ page_' = StampPage(Head(queue[clock_ptr_]), base_rowid_)
            /\ queue' = [queue EXCEPT ![clock_ptr_] = Tail(@)]
            /\ base_rowid_' = AdvanceRowid(base_rowid_, Head(queue[clock_ptr_]))
            /\ clock_ptr_' = AdvanceClock(clock_ptr_, NumShards)
            /\ yields' = Append(yields, [tag |-> page_'.tag,
                                         size |-> page_'.size,
                                         base_rowid |-> page_'.base_rowid])
            /\ UNCHANGED nFalse
       ELSE /\ nFalse' = IF nFalse < 2 THEN nFalse + 1 ELSE nFalse
            /\ UNCHANGED <<page_, queue, base_rowid_, clock_ptr_, yields>>
  /\ pc' = "idle"
  /\ UNCHANGED <<phase, files, pos, freeCells, allocated, produceEnd,
                 sig, processed, bfIdx, prevYields, prevDrained, rewinds,
                 writerVars, buildVars, metaFile, dmVars, pathVars>>

\* BeforeFirst() that forgets to reset the clock.
SourceBeforeFirstKeepClock ==
  /\ phase = "read"
  /\ pc = "idle"
  /\ rewinds < MaxRewinds
  /\ base_rowid_' = 0
  /\ clock_ptr_' = clock_ptr_
  /\ sig' = [sig EXCEPT ![0] = "beforefirst"]
  /\ bfIdx' = 0
  /\ pc' = "bf"
  /\ prevYields' = IF nFalse > 0 THEN yields ELSE <<>>
  /\ prevDrained' = (nFalse > 0)
  /\ yields' = <<>>
  /\ nFalse' = 0
  /\ rewinds' = rewinds + 1
  /\ UNCHANGED <<phase, files, pos, queue, freeCells, allocated,
                 produceEnd, processed, page_, writerVars, buildVars, metaFile, dmVars, pathVars>>

\* BeforeFirst(), up to the first p->BeforeFirst(): the cursor is reset and
\* shard 0 is asked to rewind.
SourceBeforeFirst ==
  /\ phase = "read"
  /\ pc = "idle"
  /\ rewinds < MaxRewinds
  /\ base_rowid_' = 0
  /\ clock_ptr_' = 0
  /\ sig' = [sig EXCEPT ![0] = "beforefirst"]
  /\ bfIdx' = 0
  /\ pc' = "bf"
  /\ prevYields' = IF nFalse > 0 THEN yields ELSE <<>>
  /\ prevDrained' = (nFalse > 0)
  /\ yields' = <<>>
  /\ nFalse' = 0
  /\ rewinds' = rewinds + 1
  /\ UNCHANGED <<phase, files, pos, queue, freeCells, allocated,
                 produceEnd, processed, page_, writerVars, buildVars, metaFile, dmVars, pathVars>>

\* BeforeFirst() that rewinds the first shard only.
SourceBeforeFirstStepFirstOnly ==
  /\ phase = "read"
  /\ pc = "bf"
  /\ processed[bfIdx]
  /\ processed' = [processed EXCEPT ![bfIdx] = FALSE]
  /\ bfIdx' = 0
  /\ pc' = "idle"
  /\ sig' = sig
  /\ UNCHANGED <<phase, files, pos, queue, freeCells, allocated,
                 produceEnd, base_rowid_, clock_ptr_, page_, histVars,
                 writerVars, buildVars, metaFile, dmVars, pathVars>>

\* BeforeFirst(), loop: p->BeforeFirst() of shard bfIdx returns once its
\* producer has served the request; the next shard is asked, or the call
\* returns.
SourceBeforeFirstStep ==
  /\ phase = "read"
  /\ pc = "bf"
  /\ processed[bfIdx]
  /\ processed' = [processed EXCEPT ![bfIdx] = FALSE]
  /\ IF bfIdx + 1 < NumShards
       THEN /\ bfIdx' = bfIdx + 1
            /\ sig' = [sig EXCEPT ![bfIdx + 1] = "beforefirst"]
            /\ pc' = pc
       ELSE /\ bfIdx' = 0
            /\ pc' = "idle"
            /\ sig' = sig
  /\ UNCHANGED <<phase, files, pos, queue, freeCells, allocated,
                 produceEnd, base_rowid_, clock_ptr_, page_, histVars, writerVars, buildVars, metaFile, dmVars, pathVars>>

\* ------------------------------------------------------- page writer
\* SparsePageWriter::PushWrite: the j-th page handed in goes to shard
\* j mod k, behind the pages that shard already holds.
PushWrite(sz) ==
  /\ phase = "write"
  /\ Len(pushed) < MaxPush
  /\ LET p == [tag |-> Len(pushed), size |-> sz] IN
       /\ pushed' = Append(pushed, p)
       /\ files' = [files EXCEPT ![wclock] = Append(@, p)]
  /\ wclock' = (wclock + 1) % NumShards
  /\ UNCHANGED <<phase, readerVars, histVars, buildVars, metaFile, dmVars, pathVars>>

\* The writer is destroyed (queue drained, streams flushed) and a
\* SparsePageSource is constructed on the same cache.
OpenSource ==
  /\ phase = "write"
  /\ phase' = "read"
  /\ UNCHANGED <<files, readerVars, histVars, writerVars, buildVars, metaFile, dmVars, pathVars>>

\* ------------------------------------------------ CreateRowPage(parser)
\* The row blocks a parser may yield: size rows (at least one), the qid
\* column with one id per row (absent: hasQid = FALSE) and the feature
\* indices of the nonzeros, of which there are offset[size] - offset[0].
\* Labels and weights are carried along by the code and not modelled.
RowBlocks ==
  UNION { { [size |-> n, hasQid |-> FALSE, qid |-> <<>>, index |-> ix] :
              ix \in UNION {[1..m -> IndexChoices] : m \in NnzCounts} }
          \cup
          { [size |-> n, hasQid |-> TRUE, qid |-> q, index |-> ix] :
              q \in [1..n -> QidChoices],
              ix \in UNION {[1..m -> IndexChoices] : m \in NnzCounts} }
          : n \in BlockRows }

RECURSIVE ScanQids(_, _, _, _)
\* for (i < batch.size): a boundary is recorded when the qid differs from
\* the last one or the last one is the sentinel
ScanQids(q, last, gsize, gptr) ==
  IF q = <<>>
    THEN [last |-> last, gsize |-> gsize, gptr |-> gptr]
    ELSE ScanQids(Tail(q), Head(q), gsize + 1,
                  IF last = default_max \/ last # Head(q)
                    THEN Append(gptr, gsize) ELSE gptr)

Max(a, b) == IF a >= b THEN a ELSE b

RECURSIVE NumColAfter(_, _)
\* num_col_ = max(num_col_, uint64_t(index + 1)), index + 1 in uint32_t
NumColAfter(n, ix) ==
  IF ix = <<>> THEN n
  ELSE NumColAfter(Max(n, (Head(ix) + 1) % (2^IndexBits)), Tail(ix))

\* page->MemCostBytes(): offsets and entries of the page
MemCostBytes(pg) == pg.rows + pg.nnz

FlushDueStrict(pg) == MemCostBytes(pg) > kPageSize

\* page->MemCostBytes() >= kPageSize
FlushDue(pg) == MemCostBytes(pg) >= kPageSize

QidCheckNoEmpty(q, nrow) == Len(q) = nrow

\* CHECK(info.qids_.empty() || info.qids_.size() == info.num_row_)
QidCheck(q, nrow) == q = <<>> \/ Len(q) = nrow

ClearedPage == [rows |-> 0, nnz |-> 0]

TrailingDueAlways(pg) == TRUE

\* page->data.Size() != 0
TrailingDue(pg) == pg.nnz # 0

\* fo->Write(&tmagic, sizeof(tmagic))
MagicRecord == [kind |-> "kMagic"]

\* info.SaveBinary(fo)
InfoRecord(mi) == [kind |-> "MetaInfo", info |-> mi]

\* writer.PushWrite(std::move(page)) when due is TRUE: the page goes to
\* shard wclock of the cache.
BuilderPush(due, pg) ==
  IF due
    THEN LET p == [tag |-> Len(pushed), size |-> pg.rows] IN
         /\ pushed' = Append(pushed, p)
         /\ files' = [files EXCEPT ![wclock] = Append(@, p)]
         /\ wclock' = (wclock + 1) % NumShards
    ELSE UNCHANGED <<pushed, files, wclock>>

\* One round of while (src->Next()) with batch b.
ConsumeBlock(b) ==
  /\ phase = "build"
  /\ bpc = "loop"
  /\ nblocks < MaxBlocks
  /\ LET scan == IF b.hasQid
                   THEN ScanQids(b.qid, last_group_id, group_size, info.group_ptr)
                   ELSE [last |-> last_group_id, gsize |-> group_size,
                         gptr |-> info.group_ptr]
         filled == [rows |-> bpage.rows + b.size, nnz |-> bpage.nnz + Len(b.index)]
     IN  /\ info' = [qids |-> info.qids \o b.qid,
                     group_ptr |-> scan.gptr,
                     num_row |-> info.num_row + b.size,
                     num_col |-> NumColAfter(info.num_col, b.index),
                     num_nonzero |-> info.num_nonzero + Len(b.index)]
         /\ last_group_id' = scan.last
         /\ group_size' = scan.gsize
         /\ BuilderPush(FlushDue(filled), filled)
         /\ bpage' = IF FlushDue(filled) THEN ClearedPage ELSE filled
         /\ costIn' = costIn + b.size + Len(b.index)
  /\ nblocks' = nblocks + 1
  /\ rowsIn' = rowsIn + b.size
  /\ qidRows' = qidRows + (IF b.hasQid THEN b.size ELSE 0)
  /\ maxIndex' = Max(maxIndex,
                     IF b.index = <<>> THEN -1
                     ELSE CHOOSE x \in {b.index[i] : i \in 1..Len(b.index)} :
                            \A i \in 1..Len(b.index) : b.index[i] <= x)
  /\ UNCHANGED <<phase, readerVars, histVars, bpc, saved, metaFile, dmVars, pathVars>>

\* src->Next() returns false: the last group is closed, a trailing page
\* that holds entries is written, the metadata file is written.
FinishBuild ==
  /\ phase = "build"
  /\ bpc = "loop"
  /\ LET gptr == IF last_group_id # default_max
                     /\ group_size > info.group_ptr[Len(info.group_ptr)]
                   THEN Append(info.group_ptr, group_size)
                   ELSE info.group_ptr
     IN  info' = [info EXCEPT !.group_ptr = gptr]
  /\ BuilderPush(TrailingDue(bpage), bpage)
  /\ bpage' = IF TrailingDue(bpage) THEN ClearedPage ELSE bpage
  /\ IF QidCheck(info.qids, info.num_row)
       THEN /\ saved' = TRUE
            /\ bpc' = "done"
            /\ metaFile' = <<MagicRecord, InfoRecord(info')>>
       ELSE /\ saved' = FALSE
            /\ bpc' = "fatal"
            /\ metaFile' = <<MagicRecord>>
  /\ UNCHANGED <<phase, readerVars, histVars, last_group_id, group_size,
                 nblocks, rowsIn, qidRows, maxIndex, costIn, dmVars, pathVars>>

\* -------------------------- CreatePageFromDMatrix(src, cache, page_type)
PageTypes == {".row.page", ".col.page", ".sorted.col.page", ".csr.page"}

\* the row batches a source matrix may hold: rows and nonzero entries
Batches == [size : BlockRows, nnz : NnzCounts]

RECURSIVE BatchRows(_)
BatchRows(bs) == IF bs = <<>> THEN 0 ELSE Head(bs).size + BatchRows(Tail(bs))

RECURSIVE BatchNnz(_)
BatchNnz(bs) == IF bs = <<>> THEN 0 ELSE Head(bs).nnz + BatchNnz(Tail(bs))

\* the matrices handed in: up to MaxBlocks row batches (none as well) and
\* the MetaInfo that describes them
Matrices ==
  { [batches |-> bs,
     info |-> [qids |-> <<>>, group_ptr |-> <<>>, num_row |-> BatchRows(bs),
               num_col |-> nc, num_nonzero |-> BatchNnz(bs)]] :
      bs \in UNION {[1..n -> Batches] : n \in 0..MaxBlocks}, nc \in BlockRows }

\* what page->Push adds to the page for one batch: the batch itself, or
\* its transpose, which has one row per column of the matrix
PushedShape(pt, b, ncol) ==
  IF pt = ".row.page" THEN [rows |-> b.size, nnz |-> b.nnz]
  ELSE [rows |-> ncol, nnz |-> b.nnz]

\* the if / else if chain on page_type; its else branch is LOG(FATAL)
KnownPageType(pt) == pt \in {".row.page", ".col.page", ".sorted.col.page"}

\* One round of for (auto& batch : src->GetRowBatches()).
PushBatch ==
  /\ phase = "dmatrix"
  /\ bpc = "loop"
  /\ nblocks < Len(src.batches)
  /\ IF KnownPageType(page_type)
       THEN LET add == PushedShape(page_type, src.batches[nblocks + 1],
                                   src.info.num_col)
                filled == [rows |-> bpage.rows + add.rows,
                           nnz |-> bpage.nnz + add.nnz]
            IN  /\ BuilderPush(FlushDue(filled), filled)
                /\ bpage' = IF FlushDue(filled) THEN ClearedPage ELSE filled
                /\ costIn' = costIn + MemCostBytes(add)
                /\ rowsIn' = rowsIn + add.rows
                /\ nblocks' = nblocks + 1
                /\ bpc' = bpc
       ELSE /\ bpc' = "fatal"
            /\ UNCHANGED <<pushed, files, wclock, bpage, costIn, rowsIn, nblocks>>
  /\ UNCHANGED <<phase, readerVars, histVars, info, last_group_id, group_size,
                 saved, qidRows, maxIndex, metaFile, dmVars, pathVars>>

\* The batches are exhausted: a trailing page that holds entries is
\* written, then the magic tag and the MetaInfo of the matrix.
FinishDM ==
  /\ phase = "dmatrix"
  /\ bpc = "loop"
  /\ nblocks = Len(src.batches)
  /\ BuilderPush(TrailingDue(bpage), bpage)
  /\ bpage' = IF TrailingDue(bpage) THEN ClearedPage ELSE bpage
  /\ metaFile' = <<MagicRecord, InfoRecord(info)>>
  /\ saved' = TRUE
  /\ bpc' = "done"
  /\ UNCHANGED <<phase, readerVars, histVars, info, last_group_id, group_size,
                 nblocks, rowsIn, qidRows, maxIndex, costIn, dmVars, pathVars>>

InitDM ==
  /\ phase = "dmatrix"
  /\ \E k \in ShardCounts :
       /\ files = [s \in 0..(k - 1) |-> <<>>]
       /\ OpenState(k)
  /\ HistInit
  /\ pushed = <<>>
  /\ wclock = 0
  /\ page_type \in PageTypes
  /\ src \in Matrices
  /\ NoPath
  /\ bpc = "loop"
  /\ info = src.info
  /\ metaFile = <<>>
  /\ last_group_id = default_max
  /\ group_size = 0
  /\ bpage = ClearedPage
  /\ saved = FALSE
  /\ nblocks = 0
  /\ rowsIn = 0
  /\ qidRows = 0
  /\ maxIndex = -1
  /\ costIn = 0

InitBuild ==
  /\ phase = "build"
  /\ \E k \in ShardCounts :
       /\ files = [s \in 0..(k - 1) |-> <<>>]
       /\ OpenState(k)
  /\ HistInit
  /\ pushed = <<>>
  /\ wclock = 0
  /\ BuildInit
  /\ NoDM
  /\ NoPath

InitRT ==
  /\ phase = "write"
  /\ \E k \in ShardCounts :
       /\ files = [s \in 0..(k - 1) |-> <<>>]
       /\ OpenState(k)
  /\ HistInit
  /\ pushed = <<>>
  /\ wclock = 0
  /\ BuildInit
  /\ NoDM
  /\ NoPath

Next ==
  \/ \E s \in Shards : Produce(s)
  \/ \E s \in Shards : ProducerRewind(s)
  \/ SourceNextCall
  \/ SourceNextReturn
  \/ SourceBeforeFirst
  \/ SourceBeforeFirstStep

Spec == Init /\ [][Next]_vars

\* Each producer thread and the thread inside Next() or BeforeFirst() is
\* scheduled again and again: a step of theirs that stays possible is
\* taken.
Fairness ==
  /\ \A s \in 0..2 : WF_vars(s \in Shards /\ Produce(s))
  /\ \A s \in 0..2 : WF_vars(s \in Shards /\ ProducerRewind(s))
  /\ WF_vars(SourceNextReturn)
  /\ WF_vars(SourceBeforeFirstStep)

\* A source one shard of which holds more pages than its queue takes, so
\* that its producer comes to wait on the full queue; the other shards
\* hold one page each, or none.
InitLong ==
  /\ phase = "read"
  /\ \E k \in ShardCounts :
       /\ \E long \in 0..(k - 1), short \in 0..1 :
            files = [s \in 0..(k - 1) |->
                       [i \in 1..(IF s = long THEN kCapacity + 1 ELSE short)
                          |-> SeedPage(s, i - 1)]]
       /\ OpenState(k)
  /\ HistInit
  /\ pushed = <<>>
  /\ wclock = 0
  /\ BuildInit
  /\ NoDM
  /\ NoPath

SpecLong == InitLong /\ [][Next]_vars /\ Fairness

NextRT ==
  \/ \E sz \in PageSizes : PushWrite(sz)
  \/ OpenSource
  \/ \E s \in Shards : Produce(s)
  \/ SourceNextCall
  \/ SourceNextReturn

\* The pages are written, the source is opened and drained in one pass.
SpecRT == InitRT /\ [][NextRT]_vars

NextBuild ==
  \/ \E b \in RowBlocks : ConsumeBlock(b)
  \/ FinishBuild

SpecBuild == InitBuild /\ [][NextBuild]_vars

\* ------------------------------------- GetCacheShards and CacheExist
\* the characters of a cache specification: letters, the separator and a
\* character that is neither
Chars == {"C", "x", ":", "/"}

\* std::isalpha(c, std::locale::classic())
IsAlpha(c) == c \in {"C", "x"}

CacheSpecs == UNION {[1..n -> Chars] : n \in 0..MaxSpecLen}

\* index of the first delim in s, 0 when there is none
FirstDelim(s, delim) ==
  IF \E i \in 1..Len(s) : s[i] = delim
    THEN CHOOSE i \in 1..Len(s) :
           s[i] = delim /\ \A j \in 1..(i - 1) : s[j] # delim
    ELSE 0

RECURSIVE Split(_, _)
\* common::Split: the items std::getline reads up to each delim; nothing
\* is read from an exhausted string, so "" has no item and "a:" has one
Split(s, delim) ==
  IF s = <<>> THEN <<>>
  ELSE LET d == FirstDelim(s, delim) IN
       IF d = 0 THEN <<s>>
       ELSE <<SubSeq(s, 1, d - 1)>> \o Split(SubSeq(s, d + 1, Len(s)), delim)

\* cache_info.length() >= 2 && isalpha(cache_info[0]) && cache_info[1] == ':'
HasDrive(ci) == Len(ci) >= 2 /\ IsAlpha(ci[1]) /\ ci[2] = ":"

\* GetCacheShards: the list returned, or undefined = TRUE when
\* cache_shards[0] is assigned in an empty vector
GetCacheShards(ci, win) ==
  IF win /\ HasDrive(ci)
    THEN LET rest == Split(SubSeq(ci, 3, Len(ci)), ":") IN
         IF rest = <<>>
           THEN [undefined |-> TRUE, shards |-> <<>>]
           ELSE [undefined |-> FALSE,
                 shards |-> [rest EXCEPT ![1] = SubSeq(ci, 1, 2) \o @]]
    ELSE [undefined |-> FALSE, shards |-> Split(ci, ":")]

\* what the build may do at the assignment to element 0 of an empty
\* vector: stop with a memory fault, or store out of bounds and go on with
\* the vector still empty
UndefinedOutcomes == {"memory_fault", "continues"}

\* cache_shards = GetCacheShards(cache_info); CHECK_NE(cache_shards.size(), 0U)
\* as every entry point starts
ResolveShards ==
  /\ phase = "path"
  /\ outcome = "none"
  /\ LET r == GetCacheShards(cache_info, drive_letters) IN
       /\ cache_shards' = r.shards
       /\ \E u \in UndefinedOutcomes :
            outcome' = IF r.undefined /\ u = "memory_fault" THEN "memory_fault"
                       ELSE IF r.shards = <<>> THEN "BadCacheSpec"
                       ELSE "resolved"
  /\ UNCHANGED <<phase, files, readerVars, histVars, writerVars, buildVars,
                 metaFile, dmVars, cache_info, drive_letters, fsys>>

\* the file a prefix and a page type name
PageFile(prefix, pt) == Append(prefix, pt)

MetaOpensAlways(fs, name) == TRUE

\* dmlc::Stream::Create(name, "r", true) != nullptr
Opens(fs, name) == name \in fs

\* the metadata file of the cache opens
MetaOpens(fs, name) == Opens(fs, name)

RECURSIVE PagesOpen(_, _, _)
\* for (prefix : cache_shards): the first page file that does not open
\* ends the loop with false
PagesOpen(fs, shards, pt) ==
  IF shards = <<>> THEN TRUE
  ELSE IF ~Opens(fs, PageFile(Head(shards), pt)) THEN FALSE
  ELSE PagesOpen(fs, Tail(shards), pt)

\* the paths CacheExist(ci, pt) may try to open
Probed(shards, pt) ==
  IF shards = <<>> THEN {}
  ELSE {shards[1]} \cup {PageFile(shards[i], pt) : i \in 1..Len(shards)}

\* SparsePageSource::CacheExist(cache_info, page_type) on the file system fs
CacheExist(pt) ==
  /\ phase = "path"
  /\ outcome = "none"
  /\ page_type' = pt
  /\ LET r == GetCacheShards(cache_info, drive_letters) IN
       /\ cache_shards' = r.shards
       /\ \E fs \in SUBSET Probed(r.shards, pt), u \in UndefinedOutcomes :
            /\ fsys' = fs
            /\ outcome' =
                 IF r.undefined /\ u = "memory_fault" THEN "memory_fault"
                 ELSE IF r.shards = <<>> THEN "BadCacheSpec"
                 ELSE IF ~MetaOpens(fs, r.shards[1]) THEN "false"
                 ELSE IF PagesOpen(fs, r.shards, pt) THEN "true"
                 ELSE "false"
  /\ UNCHANGED <<phase, files, readerVars, histVars, writerVars, buildVars,
                 metaFile, src, cache_info, drive_letters>>

InitPath ==
  /\ phase = "path"
  /\ files = [s \in 0..0 |-> <<>>]
  /\ OpenState(1)
  /\ HistInit
  /\ pushed = <<>>
  /\ wclock = 0
  /\ BuildInit
  /\ NoDM
  /\ cache_info \in CacheSpecs
  /\ drive_letters \in BOOLEAN
  /\ cache_shards = <<>>
  /\ fsys = {}
  /\ outcome = "none"

NextPath ==
  \/ ResolveShards
  \/ \E pt \in PageTypes : CacheExist(pt)

SpecPath == InitPath /\ [][NextPath]_vars

NextDM ==
  \/ PushBatch
  \/ FinishDM

SpecDM == InitDM /\ [][NextDM]_vars

\* =================================================================
\* Properties
\* =================================================================
RECURSIVE SumSizes(_, _)
\* rows of the first n pages of the sequence q
SumSizes(q, n) == IF n = 0 THEN 0 ELSE SumSizes(q, n - 1) + q[n].size

\* pages of shard s returned in this pass when L pages were returned in all
YieldedFrom(s, L) == (L \div NumShards) + (IF s < L % NumShards THEN 1 ELSE 0)

\* C1: within a pass the j-th successful Next() (j from 0) returns page
\* j div k of shard j mod k, and Next() returns false exactly when the
\* shard the clock points at has no further page, whatever the other shards
\* still hold.
C1_ClockInterleaving ==
  phase = "read" =>
    /\ \A j \in 1..Len(yields) :
         LET s == (j - 1) % NumShards
             i == (j - 1) \div NumShards
         IN  /\ i < Len(files[s])
             /\ yields[j].tag = files[s][i + 1].tag
    /\ nFalse > 0 =>
         /\ clock_ptr_ = Len(yields) % NumShards
         /\ Len(files[clock_ptr_]) = Len(yields) \div NumShards

\* A pass over three shards has ended after two pages while another shard
\* still holds an unread page.
C1_Witness ==
  /\ phase = "read"
  /\ NumShards = 3
  /\ Len(yields) = 2
  /\ nFalse > 0
  /\ \E s \in Shards : Len(files[s]) > YieldedFrom(s, Len(yields))

\* C2: every returned page carries as base_rowid the rows of the pages
\* returned before it in the pass; base_rowid_ is the rows of all pages
\* returned in the pass and clock_ptr_ is their number mod k.
C2_BaseRowid ==
  phase = "read" =>
    /\ \A j \in 1..Len(yields) : yields[j].base_rowid = SumSizes(yields, j - 1)
    /\ base_rowid_ = SumSizes(yields, Len(yields))
    /\ clock_ptr_ = Len(yields) % NumShards
    /\ clock_ptr_ \in 0..(NumShards - 1)

\* Three pages of differing row counts have been returned in a pass that
\* follows a BeforeFirst().
C2_Witness ==
  /\ phase = "read"
  /\ rewinds > 0
  /\ Len(yields) = 3
  /\ base_rowid_ > 3
  /\ yields[3].base_rowid > 2

\* C3: pages handed to PushWrite on k shards and read back in one full
\* pass come out in the order they were handed in, each with the rows of
\* its predecessors as base_rowid (number of pages a multiple of k).
C3_RoundTrip ==
  (phase = "read" /\ nFalse > 0 /\ Len(pushed) % NumShards = 0) =>
    /\ Len(yields) = Len(pushed)
    /\ \A j \in 1..Len(yields) :
         /\ yields[j].tag = pushed[j].tag
         /\ yields[j].size = pushed[j].size
         /\ yields[j].base_rowid = SumSizes(pushed, j - 1)

\* Six pages of differing row counts went through three shards, two to
\* each, and the pass reading them back has ended.
C3_Witness ==
  /\ phase = "read"
  /\ nFalse > 0
  /\ NumShards = 3
  /\ Len(pushed) = 6
  /\ Len(yields) = 6
  /\ pushed[1].size # pushed[2].size

\* C4: a pass that follows a drained pass and a BeforeFirst() returns the
\* pages and base_rowid values of the drained pass, in the same order, and
\* ends where it ended.
C4_PassRestart ==
  (phase = "read" /\ prevDrained) =>
    /\ Len(yields) <= Len(prevYields)
    /\ \A j \in 1..Len(yields) : yields[j] = prevYields[j]
    /\ nFalse > 0 => yields = prevYields

\* Two passes of two or more pages have both been drained.
C4_Witness ==
  /\ phase = "read"
  /\ prevDrained
  /\ nFalse > 0
  /\ Len(prevYields) >= 2
  /\ yields = prevYields

\* C5: once Next() has returned false, every step that is not a
\* BeforeFirst() leaves the pass ended: no page is returned, no page is
\* held, base_rowid_ and clock_ptr_ keep their values.
C5_TerminalSticky ==
  [][(phase = "read" /\ nFalse > 0 /\ nFalse' > 0) =>
       /\ yields' = yields
       /\ page_ = NoPage
       /\ page_' = NoPage
       /\ base_rowid_' = base_rowid_
       /\ clock_ptr_' = clock_ptr_]_vars

\* Next() has returned false twice in a pass that had returned a page,
\* while another shard still held pages.
C5_Witness ==
  /\ phase = "read"
  /\ nFalse = 2
  /\ pc = "idle"
  /\ Len(yields) > 0
  /\ \E s \in Shards : Len(files[s]) > YieldedFrom(s, Len(yields))

\* pages of the pipeline of shard s: ready in the queue or on the free
\* list (a page being produced is taken and put back in one step)
LivePages(s) == Len(queue[s]) + freeCells[s]

\* C6: at most 4 pages are live in the prefetch pipeline of any shard.
C6_PipelineBound ==
  phase = "read" => \A s \in Shards : LivePages(s) <= kCapacity

\* CreateRowPage has left its loop and closed the groups and the cache.
BuildEnded == phase = "build" /\ bpc # "loop"

RECURSIVE RunEnds(_, _)
\* the end row index of every maximal run of equal consecutive qids, from
\* row i on
RunEnds(q, i) ==
  IF i > Len(q) THEN <<>>
  ELSE (IF i = Len(q) \/ q[i] # q[i + 1] THEN <<i>> ELSE <<>>) \o RunEnds(q, i + 1)

\* C7: when every row block carries qids, the final group_ptr is 0
\* followed by the end row index of each maximal run of equal consecutive
\* qids, for any qid values.
C7_GroupPtr ==
  (BuildEnded /\ rowsIn > 0 /\ qidRows = rowsIn) =>
    info.group_ptr = <<0>> \o RunEnds(info.qids, 1)

\* C8: after all row blocks num_col is 1 + the largest feature index of
\* all nonzeros, and 0 when there is no nonzero, for any index value.
C8_NumCol ==
  BuildEnded => info.num_col = maxIndex + 1

\* C9: the metadata flush fails, and MetaInfo is not serialized, exactly
\* when some but not all rows came with a qid; otherwise MetaInfo is
\* serialized, with qids empty or one per row.
C9_QidInvariant ==
  /\ (phase = "build" /\ bpc = "loop") => ~saved
  /\ BuildEnded =>
       /\ bpc = "fatal" <=> (qidRows > 0 /\ qidRows # rowsIn)
       /\ saved <=> bpc = "done"
       /\ saved => (info.qids = <<>> \/ Len(info.qids) = info.num_row)

\* The flush has failed on a cache of which only some rows carried a qid.
C9_Witness ==
  /\ BuildEnded
  /\ bpc = "fatal"
  /\ ~saved
  /\ qidRows > 0
  /\ qidRows < rowsIn

\* C10 as stated: with M the memory cost of all row blocks and T the page
\* size target, between floor(M/T) and ceil(M/T) + 1 pages are handed to
\* PushWrite.
C10_FlushCountOriginal ==
  BuildEnded =>
    /\ Len(pushed) >= costIn \div kPageSize
    /\ Len(pushed) <= ((costIn + kPageSize - 1) \div kPageSize) + 1

\* C10 as amended: at most ceil(M/T) + 1 pages are handed to PushWrite, and
\* at least one when M >= T.
C10_FlushCount ==
  BuildEnded =>
    /\ Len(pushed) <= ((costIn + kPageSize - 1) \div kPageSize) + 1
    /\ costIn >= kPageSize => Len(pushed) >= 1

\* A page that overshoots the target was written: fewer pages than
\* floor(M/T), and at least one.
C10_Witness ==
  /\ BuildEnded
  /\ Len(pushed) >= 1
  /\ Len(pushed) < costIn \div kPageSize


\* C11: CreatePageFromDMatrix with a page type other than .row.page,
\* .col.page and .sorted.col.page ends in the fatal unknown-page-type
\* error for every source matrix, one without row batches included, and
\* writes no metadata file.
C11_UnknownPageType ==
  (phase = "dmatrix" /\ ~(page_type \in {".row.page", ".col.page", ".sorted.col.page"})
     /\ bpc # "loop")
    => /\ bpc = "fatal"
       /\ metaFile = <<>>
       /\ ~saved

\* The same for the matrices that hold at least one row batch.
C11_UnknownPageTypeWithBatches ==
  (phase = "dmatrix" /\ ~(page_type \in {".row.page", ".col.page", ".sorted.col.page"})
     /\ bpc # "loop" /\ src.batches # <<>>)
    => /\ bpc = "fatal"
       /\ metaFile = <<>>
       /\ ~saved

\* C12: CacheExist returns true exactly when the metadata file at the
\* first prefix and the page file prefix + page_type of every shard can be
\* opened for reading; when one of them is absent it returns false, it
\* does not fail.
C12_CacheExist ==
  (phase = "path" /\ page_type # "" /\ cache_shards # <<>>
     /\ outcome # "memory_fault")
    => /\ outcome \in {"true", "false"}
       /\ outcome = "true" <=>
            /\ cache_shards[1] \in fsys
            /\ \A i \in 1..Len(cache_shards) :
                 Append(cache_shards[i], page_type) \in fsys

\* The metadata file and the page file of the first of two shards are
\* there, the page file of the second shard is not: false is returned.
C12_Witness ==
  /\ phase = "path"
  /\ Len(cache_shards) = 2
  /\ cache_shards[1] \in fsys
  /\ Append(cache_shards[1], page_type) \in fsys
  /\ ~(Append(cache_shards[2], page_type) \in fsys)
  /\ outcome = "false"

RECURSIVE Join(_)
\* the prefixes of a list with ":" between them
Join(l) ==
  IF Len(l) = 0 THEN <<>>
  ELSE IF Len(l) = 1 THEN l[1]
  ELSE l[1] \o <<":">> \o Join(Tail(l))

\* the list holds, in order, the prefixes between the separators of the
\* cache specification; a leading drive letter and its ":" stay in the
\* first prefix
PrefixesOf(l, ci, win) ==
  /\ l # <<>>
  /\ Join(l) = ci \/ Join(l) \o <<":">> = ci
  /\ \A i \in 1..Len(l) :
       \A j \in 1..Len(l[i]) :
         l[i][j] = ":" => (win /\ HasDrive(ci) /\ i = 1 /\ j = 2)

\* C13: for every cache specification the resolver either returns a
\* non-empty list of the prefixes in their order, or the caller fails with
\* the bad-cache-spec check because the list is empty; there is no other
\* outcome, for "" and "C:" as well.
C13_ResolverOutcomes ==
  (phase = "path" /\ page_type = "" /\ outcome # "none")
    => \/ outcome = "resolved"
          /\ PrefixesOf(cache_shards, cache_info, drive_letters)
       \/ outcome = "BadCacheSpec" /\ cache_shards = <<>>

\* The same for the specifications other than a bare drive ("C:").
C13_ResolverOutcomesDefined ==
  (phase = "path" /\ page_type = "" /\ outcome # "none"
     /\ ~GetCacheShards(cache_info, drive_letters).undefined)
    => \/ outcome = "resolved"
          /\ PrefixesOf(cache_shards, cache_info, drive_letters)
       \/ outcome = "BadCacheSpec" /\ cache_shards = <<>>

\* C14: whenever Next() recycles the held page, the shard
\* (clock_ptr + k - 1) mod k that receives it is the shard whose prefetcher
\* produced it: in every state in which Next() may be called with a page
\* held, after any sequence of Next() and BeforeFirst() calls, the recycle
\* target is the owner of the page.
C14_RecycleToOwner ==
  (phase = "read" /\ pc = "idle" /\ page_ # NoPage)
    => RecycleTarget(clock_ptr_, NumShards) = page_.owner

\* The same in the passes that no BeforeFirst() preceded.
C14_RecycleToOwnerFirstPass ==
  (phase = "read" /\ pc = "idle" /\ page_ # NoPage /\ rewinds = 0)
    => RecycleTarget(clock_ptr_, NumShards) = page_.owner

\* C15: after a BeforeFirst() issued at any point of a pass, the pass that
\* follows is the pass of a freshly opened source: the pages returned are
\* the first pages of each shard in file order, and the pages a shard has
\* ready are the ones that follow them in its file, so none decoded before
\* the rewind is left to be delivered.
C15_RewindFresh ==
  (phase = "read" /\ rewinds > 0 /\ pc # "bf")
    => /\ \A j \in 1..Len(yields) :
            LET s == (j - 1) % NumShards
                i == (j - 1) \div NumShards
            IN  i < Len(files[s]) /\ yields[j].tag = files[s][i + 1].tag
       /\ \A s \in Shards :
            LET y == YieldedFrom(s, Len(yields)) IN
            /\ pos[s] = y + Len(queue[s])
            /\ pos[s] <= Len(files[s])
            /\ \A i \in 1..Len(queue[s]) :
                 queue[s][i].tag = files[s][y + i].tag

\* A pass was cut short by BeforeFirst() while a page was held (the page
\* went to a foreign shard afterwards), and the pass that followed has
\* returned two pages and reached its end.
C15_Witness ==
  /\ phase = "read"
  /\ rewinds > 0
  /\ ~prevDrained
  /\ pc = "idle"
  /\ Len(yields) >= 2
  /\ nFalse > 0
  /\ \E s \in Shards : freeCells[s] + Len(queue[s]) > allocated[s]

C17_BeforeFirstReturns ==
  /\ (pc = "bf") ~> (pc = "idle")
  /\ [][(pc = "bf" /\ pc' = "idle") =>
          \A s \in Shards :
            /\ sig'[s] = "produce"
            /\ ~processed'[s]
            /\ pos'[s] = Len(queue'[s])
            /\ \A i \in 1..Len(queue'[s]) : queue'[s][i].tag = files[s][i].tag
            /\ produceEnd'[s] => pos'[s] = Len(files[s])]_vars

\* BeforeFirst() is waiting for a shard whose producer sits on a full
\* queue with pages left to read, while another shard is at end-of-stream.
C17_Witness ==
  /\ phase = "read"
  /\ pc = "bf"
  /\ sig[bfIdx] = "beforefirst"
  /\ Len(queue[bfIdx]) = kCapacity
  /\ pos[bfIdx] < Len(files[bfIdx])
  /\ \E s \in Shards : produceEnd[s]

\* C18: CreateRowPage conserves rows: every row of every block is in
\* exactly one page handed to push_write, so the rows of the written pages
\* sum to info.num_row, and num_nonzero is the sum of offset[size] -
\* offset[0] over the blocks, for every input, blocks whose rows have no
\* nonzero entry included.
C18_RowConservation ==
  BuildEnded =>
    /\ info.num_row = rowsIn
    /\ info.num_nonzero = costIn - rowsIn
    /\ SumSizes(pushed, Len(pushed)) = info.num_row

\* The counters are exact and the rows that are in no written page are the
\* rows of a trailing page without entries.
C18_RowsWrittenOrDropped ==
  BuildEnded =>
    /\ info.num_row = rowsIn
    /\ info.num_nonzero = costIn - rowsIn
    /\ SumSizes(pushed, Len(pushed)) + bpage.rows = info.num_row
    /\ bpage.rows > 0 => bpage.nnz = 0

\* C19: on an input without row blocks CreateRowPage hands no page to
\* push_write and still writes the metadata file: the magic tag, then a
\* MetaInfo whose num_row, num_col and num_nonzero are 0 and whose qids
\* and group_ptr are empty.
C19_EmptyInput ==
  (BuildEnded /\ nblocks = 0)
    => /\ pushed = <<>>
       /\ \A s \in Shards : files[s] = <<>>
       /\ bpc = "done"
       /\ metaFile = <<[kind |-> "kMagic"],
                       [kind |-> "MetaInfo",
                        info |-> [qids |-> <<>>, group_ptr |-> <<>>,
                                  num_row |-> 0, num_col |-> 0,
                                  num_nonzero |-> 0]]>>

\* CreateRowPage has ended on a parser that yielded no block, for a cache
\* of three shards.
C19_Witness ==
  /\ phase = "build"
  /\ bpc # "loop"
  /\ nblocks = 0
  /\ NumShards = 3
  /\ Len(metaFile) = 2

=============================================================================
